---- MODULE Spec2Model ----
(***************************************************************************)
(* analysis.py: the quarterly CAC report script, as a state machine.       *)
(*                                                                         *)
(* One process runs the module top level statement by statement: create    *)
(* the figures directory, read the CSV, check the columns, coerce them,    *)
(* compute mean and median, print them, print the verification line, draw  *)
(* and save two charts, write the summary.  An uncaught exception ends     *)
(* the process where it is raised.                                         *)
(*                                                                         *)
(* Money is counted in cents, so 150.0 is 15000 and 229.56 is 22956.  A    *)
(* float is a record [nan, num, den]: not-a-number, or the exact quotient  *)
(* num/den of two integers.  Binary rounding of the floats is not          *)
(* modelled.                                                               *)
(***************************************************************************)
EXTENDS Integers, Sequences, FiniteSets, TLC

VARIABLES
    csv,        \* the input file quarterly_cac.csv: [header, rows]
    figDir,     \* whether the directory "figures" exists
    dirAtStart, \* figDir as it was when the current process started
    files,      \* the output files: [trend, cmp, summary], <<>> when absent
    pc,         \* the statement the process is at, or "done" / "failed"
    err,        \* the uncaught exception that ended the process, or "none"
    df,         \* the loaded DataFrame: <<>> before read_csv, else <<table>>
    quarters,   \* the list quarters
    cacs,       \* the list cacs
    mean_cac,   \* <<>> before it is computed, else <<float>>
    median_cac, \* <<>> before it is computed, else <<float>>
    console,    \* the lines printed to standard output by this process
    figs,       \* pyplot's open figures, the current one last
    written,    \* the artifacts this process has written successfully
    trace,      \* the statements this process has executed, in order
    run,        \* 1 for the first run of the script, 2 for the re-run
    prev        \* what the first run left: [outcome, files, written]

vars == <<csv, figDir, dirAtStart, files, pc, err, df, quarters, cacs,
          mean_cac, median_cac, console, figs, written, trace, run, prev>>

-----------------------------------------------------------------------------
(* Bounds and program constants *)

MaxRows == 3

BENCHMARK == 15000

REQUIRED_MEAN == 22956

\* 1e-6 dollars is 1/TolInv of a cent
TolInv == 10000

EMAIL == "23f3001359@ds.study.iitm.ac.in"

DATA_PATH == "quarterly_cac.csv"

-----------------------------------------------------------------------------
(* Floats *)

NaN == [nan |-> TRUE, num |-> 0, den |-> 1]

F(n) == [nan |-> FALSE, num |-> n, den |-> 1]

Abs(i) == IF i < 0 THEN -i ELSE i

-----------------------------------------------------------------------------
(* The input file *)

QuarterCells == {"Q1", "Q2"}

\* the text of a cac cell: three amounts, an empty cell, a non-numeric cell
CacCells == {"100", "200", "229.56", "", "abc"}

Absent == "-"

Rows(hdr) ==
    [quarter : IF "quarter" \in hdr THEN QuarterCells ELSE {Absent},
     cac     : IF "cac" \in hdr THEN CacCells ELSE {Absent}]

SeqsUpTo(S, n) == UNION {[1..k -> S] : k \in 0..n}

Csvs == UNION {[header : {hdr}, rows : SeqsUpTo(Rows(hdr), MaxRows)] :
                  hdr \in SUBSET {"quarter", "cac"}}

\* whether float(cell) succeeds: a missing cell is already nan
Numeric(cell) == cell \in {"100", "200", "229.56", ""}

\* float(cell), in cents
ParseFloat(cell) ==
    CASE cell = "100"    -> F(10000)
      [] cell = "200"    -> F(20000)
      [] cell = "229.56" -> F(22956)
      [] OTHER           -> NaN

Column(rows, name) == [i \in 1..Len(rows) |-> rows[i][name]]

-----------------------------------------------------------------------------
(* pandas: Series.mean and Series.median, which skip nan *)

RECURSIVE SumNum(_)
SumNum(s) == IF s = <<>> THEN 0 ELSE s[1].num + SumNum(Tail(s))

IsNum(v) == ~v.nan

DropNa(s) == SelectSeq(s, IsNum)

MeanOverRows(s) ==
    IF DropNa(s) = <<>> THEN NaN
    ELSE [nan |-> FALSE, num |-> SumNum(DropNa(s)), den |-> Len(s)]

Mean(s) ==
    IF DropNa(s) = <<>> THEN NaN
    ELSE [nan |-> FALSE, num |-> SumNum(DropNa(s)), den |-> Len(DropNa(s))]

\* insert v into the ascending sequence s
RECURSIVE Insert(_, _)
Insert(v, s) ==
    IF s = <<>> THEN <<v>>
    ELSE IF v.num <= s[1].num THEN <<v>> \o s
    ELSE <<s[1]>> \o Insert(v, Tail(s))

RECURSIVE Sorted(_)
Sorted(s) == IF s = <<>> THEN <<>> ELSE Insert(s[1], Sorted(Tail(s)))

Median(s) ==
    LET p == Sorted(DropNa(s))
        n == Len(p)
    IN  IF n = 0 THEN NaN
        ELSE IF n % 2 = 1 THEN F(p[(n + 1) \div 2].num)
        ELSE [nan |-> FALSE, num |-> p[n \div 2].num + p[n \div 2 + 1].num,
              den |-> 2]

-----------------------------------------------------------------------------
(* Formatting *)

Digits2(n) == IF n < 10 THEN "0" \o ToString(n) ELSE ToString(n)

\* the amount x rounded to whole cents
Cents(x) ==
    LET q == x.num \div x.den
        r == x.num % x.den
    IN  IF 2 * r >= x.den THEN q + 1 ELSE q

\* f"{x:.2f}"
Fmt2(x) ==
    IF x.nan THEN "nan"
    ELSE ToString(Cents(x) \div 100) \o "." \o Digits2(Cents(x) % 100)

\* f"{x:.0f}" of a whole amount
Fmt0(x) == ToString(x.num \div (100 * x.den))

-----------------------------------------------------------------------------
(* Charts and the summary text *)

\* Plot 1: the line of cacs over quarters, and the benchmark line
TrendFigure(qs, cs) ==
    [kind   |-> "trend",
     labels |-> qs,
     values |-> cs,
     hline  |-> <<BENCHMARK>>,
     texts  |-> <<"Company CAC",
                  "Industry Benchmark (" \o Fmt0(F(BENCHMARK)) \o ")">>]

BarLabels == <<"Company Avg CAC", "Industry Benchmark">>

BarValuesSwapped(m) == <<F(BENCHMARK), m>>

BarValues(m) == <<m, F(BENCHMARK)>>

\* Plot 2: one bar per value, each annotated with its height
BarFigure(m) ==
    [kind   |-> "bar",
     labels |-> BarLabels,
     values |-> BarValues(m),
     hline  |-> <<>>,
     texts  |-> [i \in 1..Len(BarValues(m)) |-> Fmt2(BarValues(m)[i])]]

\* what a save that failed partway leaves in the file
Truncated ==
    [kind |-> "truncated", labels |-> <<>>, values |-> <<>>, hline |-> <<>>,
     texts |-> <<>>]

HigherThan == ") is higher than the industry benchmark ("

\* summary_text, a sequence of lines, each the sequence of the literal and
\* the formatted parts of the f-string
SummaryText(n, m, md) ==
    << <<"CAC Analysis Summary">>,
       <<"--------------------">>,
       <<"Rows analyzed: ", ToString(n)>>,
       <<"Average CAC: ", Fmt2(m)>>,
       <<"Median CAC: ", Fmt2(md)>>,
       <<"Industry benchmark: ", Fmt2(F(BENCHMARK))>>,
       <<"">>,
       <<"Key insight:">>,
       <<"- Current average CAC (", Fmt2(m), HigherThan,
         Fmt2(F(BENCHMARK)), ").">>,
       <<"- Recommended solution: optimize digital marketing channels "
            \o "(reallocate spend to organic/referral, improve conversion "
            \o "funnel, A/B test landing pages, etc).">>,
       <<"">>,
       <<"Contact for verification: ", EMAIL>> >>

WarningLine == "WARNING: computed mean does not equal REQUIRED_MEAN (229.56)."

VerifiedLine == "Verified: computed mean equals required README value 229.56"

SavedTrendLine == "Saved CAC trend figure to: figures/cac_trend.png"

SavedCmpLine ==
    "Saved benchmark comparison figure to: figures/cac_benchmark_comparison.png"

WroteLine == "Wrote analysis_summary.txt"

CompleteLine == "Analysis complete."

\* abs(mean_cac - REQUIRED_MEAN) > 1e-6, False when the mean is nan
Mismatch(m) ==
    ~m.nan /\ Abs(m.num - REQUIRED_MEAN * m.den) * TolInv > m.den

-----------------------------------------------------------------------------
(* The process *)

NoFiles == [trend |-> <<>>, cmp |-> <<>>, summary |-> <<>>]

Fresh ==
    /\ pc = "makedirs"
    /\ err = "none"
    /\ df = <<>>
    /\ quarters = <<>>
    /\ cacs = <<>>
    /\ mean_cac = <<>>
    /\ median_cac = <<>>
    /\ console = <<>>
    /\ figs = <<>>
    /\ written = {}
    /\ trace = <<>>

Init ==
    /\ csv \in Csvs
    /\ figDir \in BOOLEAN
    /\ dirAtStart = figDir
    /\ files = NoFiles
    /\ run = 1
    /\ prev = [outcome |-> "none", files |-> NoFiles, written |-> {}]
    /\ Fresh

\* the statement at `step` ran and control moves to `next`
Goto(step, next) ==
    /\ pc = step
    /\ pc' = next
    /\ trace' = Append(trace, step)

\* the statement at `step` raised `e`, which nothing catches
Raise(step, e) ==
    /\ pc = step
    /\ pc' = "failed"
    /\ err' = e
    /\ trace' = Append(trace, step)

\* os.makedirs(FIG_DIR, exist_ok=True)
Makedirs ==
    \/ /\ Goto("makedirs", "read")
       /\ figDir' = TRUE
       /\ UNCHANGED <<csv, dirAtStart, files, err, df, quarters, cacs,
                      mean_cac, median_cac, console, figs, written, run, prev>>
    \/ /\ ~figDir
       /\ Raise("makedirs", "OSError")
       /\ UNCHANGED <<csv, figDir, dirAtStart, files, df, quarters, cacs,
                      mean_cac, median_cac, console, figs, written, run, prev>>

\* df = pd.read_csv(DATA_PATH)
ReadCsv ==
    \/ /\ Goto("read", "validate")
       /\ df' = <<csv>>
       /\ UNCHANGED <<csv, figDir, dirAtStart, files, err, quarters, cacs,
                      mean_cac, median_cac, console, figs, written, run, prev>>
    \/ /\ Raise("read", "OSError")
       /\ UNCHANGED <<csv, figDir, dirAtStart, files, df, quarters, cacs,
                      mean_cac, median_cac, console, figs, written, run, prev>>

ColumnsMissingAnd(hdr) == "quarter" \notin hdr /\ "cac" \notin hdr

\* "quarter" not in df.columns or "cac" not in df.columns
ColumnsMissing(hdr) == "quarter" \notin hdr \/ "cac" \notin hdr

Validate ==
    \/ /\ pc = "validate"
       /\ ~ColumnsMissing(df[1].header)
       /\ Goto("validate", "coerce")
       /\ UNCHANGED <<csv, figDir, dirAtStart, files, err, df, quarters, cacs,
                      mean_cac, median_cac, console, figs, written, run, prev>>
    \/ /\ pc = "validate"
       /\ ColumnsMissing(df[1].header)
       /\ Raise("validate", "ValueError: columns")
       /\ UNCHANGED <<csv, figDir, dirAtStart, files, df, quarters, cacs,
                      mean_cac, median_cac, console, figs, written, run, prev>>

\* quarters = df["quarter"].astype(str).tolist()
\* cacs = df["cac"].astype(float).tolist()
Coerce ==
    LET col == Column(df[1].rows, "cac") IN
    \/ /\ pc = "coerce"
       /\ \A i \in 1..Len(col) : Numeric(col[i])
       /\ Goto("coerce", "metrics")
       /\ quarters' = Column(df[1].rows, "quarter")
       /\ cacs' = [i \in 1..Len(col) |-> ParseFloat(col[i])]
       /\ UNCHANGED <<csv, figDir, dirAtStart, files, err, df,
                      mean_cac, median_cac, console, figs, written, run, prev>>
    \/ /\ pc = "coerce"
       /\ \E i \in 1..Len(col) : ~Numeric(col[i])
       /\ Raise("coerce", "ValueError: float")
       /\ quarters' = Column(df[1].rows, "quarter")
       /\ UNCHANGED <<csv, figDir, dirAtStart, files, df, cacs,
                      mean_cac, median_cac, console, figs, written, run, prev>>

\* mean_cac = float(pd.Series(cacs).mean()); median_cac likewise
ComputeMetrics ==
    /\ Goto("metrics", "report")
    /\ mean_cac' = <<Mean(cacs)>>
    /\ median_cac' = <<Median(cacs)>>
    /\ UNCHANGED <<csv, figDir, dirAtStart, files, err, df, quarters, cacs,
                   console, figs, written, run, prev>>

\* the four print calls after the metrics
ReportMetrics ==
    /\ Goto("report", "verify")
    /\ console' = console \o
          <<"Read " \o ToString(Len(df[1].rows)) \o " rows from " \o DATA_PATH,
            "Average CAC: " \o Fmt2(mean_cac[1]),
            "Median CAC: " \o Fmt2(median_cac[1]),
            "For verification: " \o EMAIL>>
    /\ UNCHANGED <<csv, figDir, dirAtStart, files, err, df, quarters, cacs,
                   mean_cac, median_cac, figs, written, run, prev>>

VerifyRaising ==
    \/ /\ pc = "verify"
       /\ Mismatch(mean_cac[1])
       /\ Raise("verify", "AssertionError")
       /\ console' = Append(console, WarningLine)
       /\ UNCHANGED <<csv, figDir, dirAtStart, files, df, quarters, cacs,
                      mean_cac, median_cac, figs, written, run, prev>>
    \/ /\ pc = "verify"
       /\ ~Mismatch(mean_cac[1])
       /\ Goto("verify", "plot1")
       /\ console' = Append(console, VerifiedLine)
       /\ UNCHANGED <<csv, figDir, dirAtStart, files, err, df, quarters, cacs,
                      mean_cac, median_cac, figs, written, run, prev>>

\* the sanity check against REQUIRED_MEAN
Verify ==
    /\ Goto("verify", "plot1")
    /\ console' = Append(console,
          IF Mismatch(mean_cac[1]) THEN WarningLine ELSE VerifiedLine)
    /\ UNCHANGED <<csv, figDir, dirAtStart, files, err, df, quarters, cacs,
                   mean_cac, median_cac, figs, written, run, prev>>

\* plt.figure(...) ... plt.tight_layout() of Plot 1
Plot1 ==
    /\ Goto("plot1", "savefig1")
    /\ figs' = Append(figs, TrendFigure(quarters, cacs))
    /\ UNCHANGED <<csv, figDir, dirAtStart, files, err, df, quarters, cacs,
                   mean_cac, median_cac, console, written, run, prev>>

Savefig1Swallowed ==
    \/ /\ Goto("savefig1", "close1")
       /\ files' = [files EXCEPT !.trend = <<figs[Len(figs)]>>]
       /\ written' = written \cup {"trend"}
       /\ UNCHANGED <<csv, figDir, dirAtStart, err, df, quarters, cacs,
                      mean_cac, median_cac, console, figs, run, prev>>
    \/ /\ Goto("savefig1", "close1")
       /\ \E left \in {files.trend, <<Truncated>>} :
             files' = [files EXCEPT !.trend = left]
       /\ UNCHANGED <<csv, figDir, dirAtStart, err, df, quarters, cacs,
                      mean_cac, median_cac, console, figs, written, run, prev>>

\* plt.savefig(trend_path, dpi=150)
Savefig1 ==
    \/ /\ Goto("savefig1", "close1")
       /\ files' = [files EXCEPT !.trend = <<figs[Len(figs)]>>]
       /\ written' = written \cup {"trend"}
       /\ UNCHANGED <<csv, figDir, dirAtStart, err, df, quarters, cacs,
                      mean_cac, median_cac, console, figs, run, prev>>
    \/ /\ Raise("savefig1", "OSError")
       /\ \E left \in {files.trend, <<Truncated>>} :
             files' = [files EXCEPT !.trend = left]
       /\ UNCHANGED <<csv, figDir, dirAtStart, df, quarters, cacs,
                      mean_cac, median_cac, console, figs, written, run, prev>>

\* plt.close()
Close1 ==
    /\ Goto("close1", "confirm1")
    /\ figs' = SubSeq(figs, 1, Len(figs) - 1)
    /\ UNCHANGED <<csv, figDir, dirAtStart, files, err, df, quarters, cacs,
                   mean_cac, median_cac, console, written, run, prev>>

\* print(f"Saved CAC trend figure to: {trend_path}")
Confirm1 ==
    /\ Goto("confirm1", "plot2")
    /\ console' = Append(console, SavedTrendLine)
    /\ UNCHANGED <<csv, figDir, dirAtStart, files, err, df, quarters, cacs,
                   mean_cac, median_cac, figs, written, run, prev>>

\* plt.figure(...) ... plt.tight_layout() of Plot 2
Plot2 ==
    /\ Goto("plot2", "savefig2")
    /\ figs' = Append(figs, BarFigure(mean_cac[1]))
    /\ UNCHANGED <<csv, figDir, dirAtStart, files, err, df, quarters, cacs,
                   mean_cac, median_cac, console, written, run, prev>>

\* plt.savefig(cmp_path, dpi=150)
Savefig2 ==
    \/ /\ Goto("savefig2", "close2")
       /\ files' = [files EXCEPT !.cmp = <<figs[Len(figs)]>>]
       /\ written' = written \cup {"cmp"}
       /\ UNCHANGED <<csv, figDir, dirAtStart, err, df, quarters, cacs,
                      mean_cac, median_cac, console, figs, run, prev>>
    \/ /\ Raise("savefig2", "OSError")
       /\ \E left \in {files.cmp, <<Truncated>>} :
             files' = [files EXCEPT !.cmp = left]
       /\ UNCHANGED <<csv, figDir, dirAtStart, df, quarters, cacs,
                      mean_cac, median_cac, console, figs, written, run, prev>>

\* plt.close()
Close2 ==
    /\ Goto("close2", "confirm2")
    /\ figs' = SubSeq(figs, 1, Len(figs) - 1)
    /\ UNCHANGED <<csv, figDir, dirAtStart, files, err, df, quarters, cacs,
                   mean_cac, median_cac, console, written, run, prev>>

\* print(f"Saved benchmark comparison figure to: {cmp_path}")
Confirm2 ==
    /\ Goto("confirm2", "write")
    /\ console' = Append(console, SavedCmpLine)
    /\ UNCHANGED <<csv, figDir, dirAtStart, files, err, df, quarters, cacs,
                   mean_cac, median_cac, figs, written, run, prev>>

WriteSummaryAppending ==
    LET text == SummaryText(Len(df[1].rows), mean_cac[1], median_cac[1]) IN
    \/ /\ Goto("write", "confirm3")
       /\ files' = [files EXCEPT !.summary =
                       IF files.summary = <<>> THEN <<text>>
                       ELSE <<files.summary[1] \o text>>]
       /\ written' = written \cup {"summary"}
       /\ UNCHANGED <<csv, figDir, dirAtStart, err, df, quarters, cacs,
                      mean_cac, median_cac, console, figs, run, prev>>
    \/ /\ Raise("write", "OSError")
       /\ UNCHANGED <<csv, figDir, dirAtStart, files, df, quarters, cacs,
                      mean_cac, median_cac, console, figs, written, run, prev>>

\* summary_text = f"""..."""; open("analysis_summary.txt", "w"); fh.write(...)
WriteSummary ==
    LET text == SummaryText(Len(df[1].rows), mean_cac[1], median_cac[1]) IN
    \/ /\ Goto("write", "confirm3")
       /\ files' = [files EXCEPT !.summary = <<text>>]
       /\ written' = written \cup {"summary"}
       /\ UNCHANGED <<csv, figDir, dirAtStart, err, df, quarters, cacs,
                      mean_cac, median_cac, console, figs, run, prev>>
    \/ /\ Raise("write", "OSError")
       /\ \E left \in {files.summary, << <<>> >>} :
             files' = [files EXCEPT !.summary = left]
       /\ UNCHANGED <<csv, figDir, dirAtStart, df, quarters, cacs,
                      mean_cac, median_cac, console, figs, written, run, prev>>

\* print("Wrote analysis_summary.txt")
Confirm3 ==
    /\ Goto("confirm3", "complete")
    /\ console' = Append(console, WroteLine)
    /\ UNCHANGED <<csv, figDir, dirAtStart, files, err, df, quarters, cacs,
                   mean_cac, median_cac, figs, written, run, prev>>

\* print("Analysis complete."), and the interpreter exits
Complete ==
    /\ Goto("complete", "done")
    /\ console' = Append(console, CompleteLine)
    /\ UNCHANGED <<csv, figDir, dirAtStart, files, err, df, quarters, cacs,
                   mean_cac, median_cac, figs, written, run, prev>>

\* the script is started again on the same input file, in the directory the
\* first run left
Rerun ==
    /\ pc \in {"done", "failed"}
    /\ run = 1
    /\ run' = 2
    /\ prev' = [outcome |-> pc, files |-> files, written |-> written]
    /\ dirAtStart' = figDir
    /\ pc' = "makedirs"
    /\ err' = "none"
    /\ df' = <<>>
    /\ quarters' = <<>>
    /\ cacs' = <<>>
    /\ mean_cac' = <<>>
    /\ median_cac' = <<>>
    /\ console' = <<>>
    /\ figs' = <<>>
    /\ written' = {}
    /\ trace' = <<>>
    /\ UNCHANGED <<csv, figDir, files>>

Step ==
    \/ Makedirs
    \/ ReadCsv
    \/ Validate
    \/ Coerce
    \/ ComputeMetrics
    \/ ReportMetrics
    \/ Verify
    \/ Plot1
    \/ Savefig1
    \/ Close1
    \/ Confirm1
    \/ Plot2
    \/ Savefig2
    \/ Close2
    \/ Confirm2
    \/ WriteSummary
    \/ Confirm3
    \/ Complete

Next == Step \/ Rerun

Spec == Init /\ [][Next]_vars

\* the runs whose rows all carry the same quarter label
OneLabelInit ==
    /\ Init
    /\ \A i \in DOMAIN csv.rows : csv.rows[i].quarter \in {"Q1", Absent}

\* the interpreter executes the next statement as long as there is one
FairSpec == OneLabelInit /\ [][Next]_vars /\ WF_vars(Step)

-----------------------------------------------------------------------------
(* Properties *)

Ran(step) == \E i \in DOMAIN trace : trace[i] = step

Printed(line) == \E i \in DOMAIN console : console[i] = line

Computed == mean_cac # <<>> /\ median_cac # <<>>

\* the input file has no quarter column or no cac column
LacksColumn == "quarter" \notin csv.header \/ "cac" \notin csv.header

AllArtifacts == {"trend", "cmp", "summary"}

\* the rows of cacs that hold a number
Present == {i \in DOMAIN cacs : ~cacs[i].nan}

RECURSIVE SumThrough(_)
SumThrough(k) ==
    IF k = 0 THEN 0
    ELSE (IF k \in Present THEN cacs[k].num ELSE 0) + SumThrough(k - 1)

\* v is the k-th smallest of the present costs
IsKth(k, v) ==
    /\ \E i \in Present : cacs[i].num = v
    /\ Cardinality({i \in Present : cacs[i].num < v}) <= k - 1
    /\ Cardinality({i \in Present : cacs[i].num <= v}) >= k

IsMeanOf(x, count) ==
    /\ ~x.nan
    /\ x.num * count = SumThrough(Len(cacs)) * x.den

IsMedianOf(x, count) ==
    /\ ~x.nan
    /\ IF count % 2 = 1
       THEN \E i \in Present :
               /\ IsKth((count + 1) \div 2, cacs[i].num)
               /\ x.num = cacs[i].num * x.den
       ELSE \E i, j \in Present :
               /\ IsKth(count \div 2, cacs[i].num)
               /\ IsKth(count \div 2 + 1, cacs[j].num)
               /\ 2 * x.num = (cacs[i].num + cacs[j].num) * x.den

\* C1, as stated: for every loaded dataset with n >= 1 rows, n the row count
\* the script reports, mean_cac is the sum of the n costs over n and
\* median_cac is the median of the n costs (a missing cost makes both
\* undefined).
C1_MeanMedianOverAllRows ==
    (Computed /\ Len(cacs) >= 1) =>
        IF Present = DOMAIN cacs
        THEN /\ IsMeanOf(mean_cac[1], Len(df[1].rows))
             /\ IsMedianOf(median_cac[1], Len(df[1].rows))
        ELSE mean_cac[1].nan /\ median_cac[1].nan

\* C1, amended: mean_cac is the sum of the costs that are present over their
\* number m, and median_cac is their middle value (m odd) or the average of
\* their two central values (m even); rows whose cost cell is empty are
\* skipped, so m is the reported row count only when no cost is missing, and
\* both are nan when m = 0.
C1_MeanMedianOverPresent ==
    Computed =>
        IF Present = {}
        THEN mean_cac[1].nan /\ median_cac[1].nan
        ELSE /\ IsMeanOf(mean_cac[1], Cardinality(Present))
             /\ IsMedianOf(median_cac[1], Cardinality(Present))

C1_Witness ==
    /\ Computed
    /\ Len(cacs) = 3
    /\ Present = {1, 3}
    /\ cacs[1].num > cacs[3].num

\* C2, amended: when the input file lacks the quarter or the cac column, no
\* metric is computed, no chart is rendered or saved, no summary is written
\* and nothing is printed to standard output; once the column check runs the
\* process ends with the validation error.  The only output is the figures
\* directory, which is created before the file is read.
C2_MissingColumns ==
    LacksColumn =>
        /\ mean_cac = <<>> /\ median_cac = <<>>
        /\ figs = <<>>
        /\ written = {}
        /\ files = NoFiles
        /\ console = <<>>
        /\ pc \in {"makedirs", "read", "validate", "failed"}
        /\ Ran("validate") => (pc = "failed" /\ err = "ValueError: columns")
        /\ Ran("read") => figDir

\* C2, as stated: ... the process aborts before any output of any kind is
\* produced, so it leaves the file system as it found it.
C2_NoOutputOfAnyKind ==
    LacksColumn =>
        /\ C2_MissingColumns
        /\ pc = "failed" => figDir = dirAtStart

C2_Witness ==
    /\ csv.header = {"quarter"}
    /\ Len(csv.rows) >= 1
    /\ pc = "failed"
    /\ err = "ValueError: columns"
    /\ ~dirAtStart /\ figDir

SaysHigher(text) ==
    \E i \in DOMAIN text : \E j \in DOMAIN text[i] : text[i][j] = HigherThan

\* C3: in every run that writes the summary, the Key insight line states
\* that the average CAC is higher than the industry benchmark only if
\* mean_cac > BENCHMARK.
C3_InsightSign ==
    "summary" \in written =>
        (SaysHigher(files.summary[1]) =>
            /\ ~mean_cac[1].nan
            /\ mean_cac[1].num > 15000 * mean_cac[1].den)

WithinTolerance(x) ==
    ~x.nan /\ Abs(x.num - 22956 * x.den) * 10000 <= x.den

\* C4: in every run that reaches the verification step exactly one of the
\* two verification lines is printed, and it is the Verified line if and
\* only if the computed mean is within 1e-6 of 229.56; for any other mean,
\* nan included, it is the WARNING line.
C4_VerificationLine ==
    Ran("verify") =>
        /\ Cardinality({i \in DOMAIN console :
                           console[i] \in {WarningLine, VerifiedLine}}) = 1
        /\ Printed(VerifiedLine) <=> WithinTolerance(mean_cac[1])
        /\ Printed(WarningLine) <=> ~WithinTolerance(mean_cac[1])

Produced ==
    /\ AllArtifacts \subseteq written
    /\ files.trend # <<>> /\ files.cmp # <<>> /\ files.summary # <<>>

\* C5: a mismatch of the mean is not fatal: a run that has passed column
\* validation and numeric coercion goes on, whichever verification line it
\* prints, until it has saved both charts and written the summary, unless a
\* write to the file system fails.
C5_MismatchNotFatal ==
    (pc = "metrics") ~> (Produced \/ (pc = "failed" /\ err = "OSError"))

C5_Witness ==
    /\ pc = "done"
    /\ Printed(WarningLine)
    /\ Produced

TwoBars(fig) ==
    /\ fig.labels = <<"Company Avg CAC", "Industry Benchmark">>
    /\ Len(fig.values) = 2
    /\ fig.values[1] = mean_cac[1]
    /\ fig.values[2] = [nan |-> FALSE, num |-> 15000, den |-> 1]

\* C6: in every run that renders the comparison chart, the chart has exactly
\* two bars, the company average first and the benchmark second; the first
\* bar's value is the computed mean and the second's is the constant 150.0.
C6_TwoBars ==
    /\ \A i \in DOMAIN figs : figs[i].kind = "bar" => TwoBars(figs[i])
    /\ Ran("plot2") /\ ~Ran("close2") =>
          figs # <<>> /\ figs[Len(figs)].kind = "bar"
    /\ "cmp" \in written => TwoBars(files.cmp[1])

C6_Witness ==
    /\ "cmp" \in written
    /\ ~mean_cac[1].nan
    /\ mean_cac[1].num # 15000 * mean_cac[1].den

\* C7: two runs on the same input file produce the same summary text and the
\* same chart data, whatever the first run left: every artifact that both
\* runs wrote has the same content after the second run as after the first
\* (the files are overwritten), and an existing figures directory does not
\* stop a run.
C7_Deterministic ==
    /\ run = 2 =>
          \A a \in written \cap prev.written : files[a] = prev.files[a]
    /\ dirAtStart => ~(pc = "failed" /\ trace = <<"makedirs">>)

C7_Witness ==
    /\ run = 2
    /\ prev.outcome = "done"
    /\ pc = "done"
    /\ Len(cacs) >= 2

StepOrder ==
    <<"makedirs", "read", "validate", "coerce", "metrics", "report",
      "verify", "plot1", "savefig1", "close1", "confirm1", "plot2",
      "savefig2", "close2", "confirm2", "write", "confirm3", "complete">>

IsPrefix(s, t) == Len(s) <= Len(t) /\ s = SubSeq(t, 1, Len(s))

\* C8: the statements run at most once each in the fixed order; the run
\* stops at the first one that fails and nothing runs after it; the save
\* confirmation of an artifact is printed only after that artifact was
\* written, and "Analysis complete." only when all three were.
C8_OrderAndStop ==
    /\ IsPrefix(trace, StepOrder)
    /\ err # "none" => pc = "failed"
    /\ pc = "failed" => (err # "none" /\ ~ENABLED Step)
    /\ Printed(SavedTrendLine) =>
          ("trend" \in written /\ files.trend = <<TrendFigure(quarters, cacs)>>)
    /\ Printed(SavedCmpLine) =>
          ("cmp" \in written /\ files.cmp # <<>> /\ files.cmp[1].kind = "bar")
    /\ Printed(WroteLine) => ("summary" \in written /\ files.summary # <<>>)
    /\ Printed(CompleteLine) => (written = AllArtifacts /\ pc = "done")

C8_Witness ==
    /\ pc = "failed"
    /\ trace[Len(trace)] = "savefig2"
    /\ Printed(SavedTrendLine)
    /\ ~Printed(SavedCmpLine)

\* C9: when the file has both columns but no data row, the run fails with a
\* "no data" error: it prints no metric or verification line, writes no
\* chart and no summary, and does not complete with an undefined mean.
C9_NoDataError ==
    (~LacksColumn /\ Len(csv.rows) = 0) =>
        /\ console = <<>>
        /\ written = {}
        /\ pc # "done"

\* C10: at most one figure is open at any time, and none is open when the
\* process has ended, normally or by a failed save.
C10_FiguresReleased ==
    /\ Len(figs) <= 1
    /\ pc \in {"done", "failed"} => figs = <<>>

====
